---------------------------- MODULE Spec2Model ----------------------------
(***************************************************************************)
(* A model of the super-expressive regular-expression builder              *)
(* (superexpressive/__init__.py, superexpressive/types.py).                *)
(*                                                                         *)
(* Python objects are modelled as entries of a heap: an Element is a       *)
(* record stored at an address, and `a is b` is equality of addresses.     *)
(* A SuperExpressive value is a record whose stack holds addresses.        *)
(* Strings are sequences of one-character strings.                         *)
(***************************************************************************)
EXTENDS Integers, Sequences, FiniteSets, TLC

VARIABLES
    heap,   \* the objects created so far: address -> Element
    cur,    \* the SuperExpressive value the caller is chaining on
    src,    \* a SuperExpressive value the caller has kept in a variable
    snap,   \* what src looked like (fully expanded) when it was kept
    prev,   \* the receiver of the last call
    last,   \* the last call: operation, arguments, exception raised
    out,    \* the text returned by the last call to __str__
    budget, \* how many more new states the caller may ask for
    keeps   \* how many more times the caller may keep a state

vars == <<heap, cur, src, snap, prev, last, out, budget, keeps>>

------------------------------------------------------------------------------
(* Bounds of the model *)

MaxOps == 4        \* calls returning a new state, building one expression
MaxKeepOps == 3    \* the same, when the caller keeps states and branches
MaxMergeOps == 4   \* the same, when the caller merges sub-expressions
MaxKeeps == 1      \* states the caller keeps in a variable
MaxOptionOps == 4  \* calls returning a new state, merging with options
MaxNameOps == 4    \* calls returning a new state, naming groups
MaxAnchorOps == 4  \* calls returning a new state, anchoring and merging
MaxFlagOps == 4    \* calls returning a new state, setting flags
MaxFlagMergeOps == 4  \* calls returning a new state, setting flags and merging
MaxAnyOfOps == 4   \* calls returning a new state, building alternatives
MaxQuantifiedOps == 4  \* calls returning a new state, quantifying and merging
MaxRemergeOps == 5  \* calls returning a new state, capturing and merging twice

------------------------------------------------------------------------------
(* types.py: the classes *)

None == 0

QuantifierKinds ==
    {"Opt", "ZeroOrMore", "ZeroOrMoreLazy", "OneOrMore", "OneOrMoreLazy",
     "Exactly", "AtLeast", "Between", "BetweenLazy"}

ContainsChild == QuantifierKinds

ContainsChildren ==
    {"Root", "Capture", "Subexpression", "NamedCapture", "Group", "AnyOf",
     "AssertAhead", "AssertNotAhead"}

QuantifierRequiresGroupWithoutString == {"Root", "Subexpression"}

QuantifierRequiresGroup == {"Root", "String", "Subexpression"}

STACKABLE == ContainsChild \cup ContainsChildren

Root == [kind |-> "Root", children |-> <<>>]

LETTERS == {"a", "b", "m", "n"}
DIGITS == {"0", "1", "2", "3", "4", "5", "6", "7", "8", "9"}
GROUP_NAME_CHARS == LETTERS \cup DIGITS \cup {"_"}
SPECIAL_CHARS ==
    {"\\", ".", "^", "$", "|", "?", "*", "+", "(", ")", "[", "]", "{", "}", "-"}

(* The exception raised by a constructor's __post_init__, or "" *)
PostInit(element) ==
    CASE element.kind \in {"NamedCapture", "NamedBackReference"} ->
            IF element.name = <<>> THEN "ValueError"
            ELSE IF (\E i \in DOMAIN element.name :
                        element.name[i] \notin GROUP_NAME_CHARS)
                    \/ element.name[1] \notin LETTERS
                 THEN "ValueError" ELSE ""
      [] element.kind = "Backreference" ->
            IF element.index < 0 THEN "ValueError" ELSE ""
      [] element.kind \in {"Exactly", "AtLeast"} ->
            IF element.times <= 0 THEN "ValueError" ELSE ""
      [] element.kind \in {"Between", "BetweenLazy"} ->
            IF element.low < 0 \/ element.low >= element.high
            THEN "ValueError" ELSE ""
      [] element.kind \in {"String", "AnythingButString"} ->
            IF element.string = <<>> THEN "ValueError" ELSE ""
      [] element.kind \in {"AnyOfChars", "AnythingButChars"} ->
            IF element.chars = <<>> THEN "ValueError" ELSE ""
      [] OTHER -> ""

------------------------------------------------------------------------------
(* Results of the operations: err is the exception raised, "" for none *)

Raise(e) == [err |-> e]

Alloc(h, element) ==
    [err |-> "", heap |-> Append(h, element), id |-> Len(h) + 1]

add_child_in_place(h, self, child) ==
    IF h[self].kind \in ContainsChild
    THEN IF h[self].child # None
         THEN Raise("RuntimeError")
         ELSE [err |-> "", heap |-> [h EXCEPT ![self].child = child],
               id |-> self]
    ELSE [err |-> "",
          heap |-> [h EXCEPT ![self].children = Append(@, child)],
          id |-> self]

(* ContainsChild.add_child / ContainsChildren.add_child *)
add_child(h, self, child) ==
    IF h[self].kind \in ContainsChild
    THEN IF h[self].child # None
         THEN Raise("RuntimeError")
         ELSE Alloc(h, [h[self] EXCEPT !.child = child])
    ELSE Alloc(h, [h[self] EXCEPT !.children = Append(@, child)])

replace_child_appending(h, self, old, new) ==
    IF h[self].kind \in ContainsChild
    THEN IF h[self].child # old
         THEN Raise("ValueError")
         ELSE Alloc(h, [h[self] EXCEPT !.child = new])
    ELSE Alloc(h, [h[self] EXCEPT !.children = Append(@, new)])

(* ContainsChild.replace_child / ContainsChildren.replace_child *)
replace_child(h, self, old, new) ==
    IF h[self].kind \in ContainsChild
    THEN IF h[self].child # old
         THEN Raise("ValueError")
         ELSE Alloc(h, [h[self] EXCEPT !.child = new])
    ELSE LET children == [i \in DOMAIN h[self].children |->
                            IF h[self].children[i] = old
                            THEN new ELSE h[self].children[i]]
         IN  IF ~ \E i \in DOMAIN children : children[i] = new
             THEN Raise("ValueError")
             ELSE Alloc(h, [h[self] EXCEPT !.children = children])

------------------------------------------------------------------------------
(* __init__.py: the SuperExpressive dataclass *)

SuperExpressive(check) ==
    [check_simple_start_and_end |-> check,
     stack |-> <<1>>,
     named_groups |-> {},
     total_capture_groups |-> 0,
     f_ascii |-> FALSE, f_ignorecase |-> FALSE, f_locale |-> FALSE,
     f_unicode |-> TRUE, f_multiline |-> FALSE, f_dotall |-> FALSE,
     f_global |-> FALSE]

_replace_keeping(self, kw) ==
    [k \in DOMAIN self |-> IF k \in DOMAIN kw THEN kw[k] ELSE self[k]]

(* _replace: kw is the record of the keyword arguments that are given *)
_replace(self, kw) ==
    LET given(k) == k \in DOMAIN kw
        k1 == IF given("stack") THEN [self EXCEPT !.stack = kw.stack] ELSE self
        k2 == IF given("named_groups")
              THEN [k1 EXCEPT !.named_groups = kw.named_groups] ELSE k1
        k3 == IF given("total_capture_groups")
              THEN [k2 EXCEPT !.total_capture_groups = kw.total_capture_groups]
              ELSE k2
        k4 == IF given("f_ascii")
              THEN [(IF kw.f_ascii
                     THEN [k3 EXCEPT !.f_locale = FALSE, !.f_unicode = FALSE]
                     ELSE k3) EXCEPT !.f_ascii = kw.f_ascii]
              ELSE k3
        k5 == IF given("f_ignorecase")
              THEN [k4 EXCEPT !.f_ignorecase = kw.f_ignorecase] ELSE k4
        k6 == IF given("f_locale")
              THEN [(IF kw.f_locale
                     THEN [k5 EXCEPT !.f_ascii = FALSE, !.f_unicode = FALSE]
                     ELSE k5) EXCEPT !.f_locale = kw.f_locale]
              ELSE k5
        k7 == IF given("f_unicode")
              THEN [(IF kw.f_unicode
                     THEN [k6 EXCEPT !.f_ascii = FALSE, !.f_locale = FALSE]
                     ELSE k6) EXCEPT !.f_unicode = kw.f_unicode]
              ELSE k6
        k8 == IF given("f_multiline")
              THEN [k7 EXCEPT !.f_multiline = kw.f_multiline] ELSE k7
        k9 == IF given("f_dotall")
              THEN [k8 EXCEPT !.f_dotall = kw.f_dotall] ELSE k8
    IN  IF given("f_global") THEN [k9 EXCEPT !.f_global = kw.f_global] ELSE k9

Top(stack) == stack[Len(stack)]
ButLast(stack) == SubSeq(stack, 1, Len(stack) - 1)

PropagateStale(h, stack, i, previous, replaced, new_stack) ==
    [err |-> "", heap |-> h, stack |-> SubSeq(stack, 1, i) \o new_stack]

(* _push, lines 117-122: every entry below the top of the stack gets a new
   version pointing at the new version of the entry above it.  i is the
   position of the entry to be replaced next; new_stack is built in stack
   order, which is what tuple(reversed(new_stack)) + (new,) gives. *)
RECURSIVE Propagate(_, _, _, _, _, _)
Propagate(h, stack, i, previous, replaced, new_stack) ==
    IF i = 0
    THEN [err |-> "", heap |-> h, stack |-> new_stack]
    ELSE LET r == replace_child(h, stack[i], previous, replaced)
         IN  IF r.err # ""
             THEN Raise(r.err)
             ELSE Propagate(r.heap, stack, i - 1, stack[i], r.id,
                            <<r.id>> \o new_stack)

PopSetNothing(h, stack) == stack

(* _push, lines 134-138 and end, lines 419-420 *)
RECURSIVE PopSet(_, _)
PopSet(h, stack) ==
    IF stack # <<>> /\ h[Top(stack)].kind \in ContainsChild
    THEN PopSet(h, ButLast(stack))
    ELSE stack

(* _push(element): element is the record of a newly constructed object *)
_push(h, self, element) ==
    LET e == Alloc(h, element)
        current == Top(self.stack)
        new == add_child(e.heap, current, e.id)
        p == Propagate(new.heap, self.stack, Len(self.stack) - 1,
                       current, new.id, <<new.id>>)
    IN  IF new.err # "" THEN Raise(new.err)
        ELSE IF p.err # "" THEN Raise(p.err)
        ELSE IF element.kind \in STACKABLE
        THEN [err |-> "", heap |-> p.heap,
              se |-> _replace(self, [stack |-> p.stack \o <<e.id>>])]
        ELSE [err |-> "", heap |-> p.heap,
              se |-> _replace(self, [stack |-> PopSet(p.heap, p.stack)])]

(* A constructor call followed by _push *)
Construct(h, self, element) ==
    IF PostInit(element) # "" THEN Raise(PostInit(element))
    ELSE _push(h, self, element)

------------------------------------------------------------------------------
(* The fully expanded value of an object, and of a SuperExpressive *)

RECURSIVE Deep(_, _)
Deep(h, id) ==
    IF id = None THEN [kind |-> "None"]
    ELSE IF "children" \in DOMAIN h[id]
    THEN [h[id] EXCEPT !.children = [i \in DOMAIN @ |-> Deep(h, @[i])]]
    ELSE IF "child" \in DOMAIN h[id]
    THEN [h[id] EXCEPT !.child = Deep(h, @)]
    ELSE h[id]

DeepState(h, self) ==
    [self EXCEPT !.stack = [i \in DOMAIN @ |-> Deep(h, @[i])]]

------------------------------------------------------------------------------
(* __init__.py: the builder operations.  Each takes the heap and the
   receiver and gives [err, heap, se]: the exception raised, or the heap
   after the call and the SuperExpressive it returns. *)

Returned(r, se) == [err |-> "", heap |-> r.heap, se |-> se]

(* _start_defined *)
_start_defined(h, self) ==
    \E i \in DOMAIN self.stack :
        LET s == h[self.stack[i]]
        IN  \/ /\ s.kind \in ContainsChild
               /\ s.child # None
               /\ h[s.child].kind = "StartOfInput"
            \/ /\ s.kind \in ContainsChildren
               /\ \E c \in DOMAIN s.children :
                      h[s.children[c]].kind = "StartOfInput"

(* _end_defined *)
_end_defined(h, self) ==
    \E i \in DOMAIN self.stack :
        LET s == h[self.stack[i]]
        IN  \/ /\ s.kind \in ContainsChild
               /\ s.child # None
               /\ h[s.child].kind = "StartOfInput"
            \/ /\ s.kind \in ContainsChildren
               /\ \E c \in DOMAIN s.children :
                      h[s.children[c]].kind = "StartOfInput"

(* any_char, digit, word, ... : the properties that push one leaf without
   a check, and string(), char(), ... that construct it from an argument *)
leaf(h, self, e) == Construct(h, self, e)

named_backreference_unchecked(h, self, name) ==
    Construct(h, self, [kind |-> "NamedBackReference", name |-> name])

named_backreference(h, self, name) ==
    IF name \notin self.named_groups THEN Raise("ValueError")
    ELSE Construct(h, self, [kind |-> "NamedBackReference", name |-> name])

backreference(h, self, index) ==
    IF ~ (0 <= index /\ index <= self.total_capture_groups)
    THEN Raise("ValueError")
    ELSE Construct(h, self, [kind |-> "Backreference", index |-> index])

(* any_of, group, assert_ahead, assert_not_ahead *)
container(h, self, kind) ==
    _push(h, self, [kind |-> kind, children |-> <<>>])

capture(h, self) ==
    LET r == _push(h, self, [kind |-> "Capture", children |-> <<>>])
    IN  IF r.err # "" THEN Raise(r.err)
        ELSE Returned(r, _replace(r.se,
                 [total_capture_groups |-> self.total_capture_groups + 1]))

named_capture_again(h, self, name) ==
    LET r == Construct(h, self, [kind |-> "NamedCapture", name |-> name,
                                 children |-> <<>>])
    IN  IF r.err # "" THEN Raise(r.err)
        ELSE Returned(r, _replace(r.se,
                 [named_groups |-> self.named_groups \cup {name}]))

named_capture(h, self, name) ==
    IF name \in self.named_groups THEN Raise("ValueError")
    ELSE LET r == Construct(h, self, [kind |-> "NamedCapture", name |-> name,
                                      children |-> <<>>])
         IN  IF r.err # "" THEN Raise(r.err)
             ELSE Returned(r, _replace(r.se,
                      [named_groups |-> self.named_groups \cup {name}]))

_quantify_unchecked(h, self, quantifier) ==
    IF PostInit(quantifier) # "" THEN Raise(PostInit(quantifier))
    ELSE _push(h, self, quantifier)

(* _quantify: the quantifier is constructed by the caller (optional,
   exactly(times), between(low, high), ...) before _quantify looks at the
   stack *)
_quantify(h, self, quantifier) ==
    IF PostInit(quantifier) # "" THEN Raise(PostInit(quantifier))
    ELSE IF h[Top(self.stack)].kind \in QuantifierKinds
    THEN Raise("RuntimeError")
    ELSE _push(h, self, quantifier)

start_of_input_checked(h, self) ==
    IF _start_defined(h, self) THEN Raise("RuntimeError")
    ELSE IF _end_defined(h, self) THEN Raise("RuntimeError")
    ELSE _push(h, self, [kind |-> "StartOfInput"])

start_of_input(h, self) ==
    IF _start_defined(h, self) /\ self.check_simple_start_and_end
    THEN Raise("RuntimeError")
    ELSE IF _end_defined(h, self) /\ self.check_simple_start_and_end
    THEN Raise("RuntimeError")
    ELSE _push(h, self, [kind |-> "StartOfInput"])

end_of_input(h, self) ==
    IF _end_defined(h, self) /\ self.check_simple_start_and_end
    THEN Raise("RuntimeError")
    ELSE _push(h, self, [kind |-> "EndOfInput"])

ascii_backspace_unchecked(h, self) ==
    Construct(h, self, [kind |-> "AsciiBackspace"])

ascii_backspace(h, self) ==
    IF h[Top(self.stack)].kind # "AnyOf" THEN Raise("RuntimeError")
    ELSE Construct(h, self, [kind |-> "AsciiBackspace"])

end_container_only(h, self) ==
    IF Len(self.stack) <= 1 THEN Raise("RuntimeError")
    ELSE IF h[Top(self.stack)].kind \notin ContainsChildren
    THEN Raise("RuntimeError")
    ELSE [err |-> "", heap |-> h,
          se |-> _replace(self, [stack |-> ButLast(self.stack)])]

end_below_root(h, self) ==
    IF Len(self.stack) < 1 THEN Raise("RuntimeError")
    ELSE IF h[Top(self.stack)].kind \notin ContainsChildren
    THEN Raise("RuntimeError")
    ELSE [err |-> "", heap |-> h,
          se |-> _replace(self, [stack |-> PopSet(h, ButLast(self.stack))])]

end(h, self) ==
    IF Len(self.stack) <= 1 THEN Raise("RuntimeError")
    ELSE IF h[Top(self.stack)].kind \notin ContainsChildren
    THEN Raise("RuntimeError")
    ELSE [err |-> "", heap |-> h,
          se |-> _replace(self, [stack |-> PopSet(h, ButLast(self.stack))])]

------------------------------------------------------------------------------
(* types.py: __str__ of the elements.  A text is a sequence of characters. *)

RECURSIVE Decimal(_)
Decimal(n) ==
    LET d == <<"0", "1", "2", "3", "4", "5", "6", "7", "8", "9">>
    IN  IF n < 10 THEN <<d[n + 1]>> ELSE Decimal(n \div 10) \o <<d[(n % 10) + 1]>>

(* str.translate(ESCAPE_TABLE) *)
RECURSIVE Escaped(_)
Escaped(string) ==
    IF string = <<>> THEN <<>>
    ELSE (IF Head(string) \in SPECIAL_CHARS
          THEN <<"\\", Head(string)>> ELSE <<Head(string)>>)
         \o Escaped(Tail(string))

(* AnythingButString.__str__: one negated class per character *)
RECURSIVE Negated(_)
Negated(string) ==
    IF string = <<>> THEN <<>>
    ELSE <<"[", "^">> \o Escaped(<<Head(string)>>) \o <<"]">>
         \o Negated(Tail(string))

(* the elements whose __str__ is a constant *)
Constant(kind) ==
    CASE kind = "Noop" -> <<>>
      [] kind = "StartOfInput" -> <<"^">>
      [] kind = "EndOfInput" -> <<"$">>
      [] kind = "AnyChar" -> <<".">>
      [] kind = "WhitespaceChar" -> <<"\\", "s">>
      [] kind = "NonWhitespaceChar" -> <<"\\", "S">>
      [] kind = "Digit" -> <<"\\", "d">>
      [] kind = "NonDigit" -> <<"\\", "D">>
      [] kind = "Word" -> <<"\\", "w">>
      [] kind = "NonWord" -> <<"\\", "W">>
      [] kind = "WordBoundary" -> <<"\\", "b">>
      [] kind = "NonWordBoundary" -> <<"\\", "B">>
      [] kind = "Newline" -> <<"\\", "n">>
      [] kind = "CarriageReturn" -> <<"\\", "r">>
      [] kind = "Tab" -> <<"\\", "t">>
      [] kind = "NullByte" -> <<"\\", "x", "0", "0">>
      [] kind = "AsciiBell" -> <<"\\", "a">>
      [] kind = "AsciiBackspace" -> <<"\\", "b">>
      [] kind = "AsciiFormfeed" -> <<"\\", "f">>
      [] kind = "AsciiVerticalTab" -> <<"\\", "v">>
      [] kind = "Backslash" -> <<"\\", "\\">>
      [] kind = "StartOfString" -> <<"\\", "A">>
      [] kind = "EndOfString" -> <<"\\", "Z">>

(* Quantifier.symbol *)
symbol(q) ==
    CASE q.kind = "Opt" -> <<"?">>
      [] q.kind = "ZeroOrMore" -> <<"*">>
      [] q.kind = "ZeroOrMoreLazy" -> <<"*", "?">>
      [] q.kind = "OneOrMore" -> <<"+">>
      [] q.kind = "OneOrMoreLazy" -> <<"+", "?">>
      [] q.kind = "Exactly" -> <<"{">> \o Decimal(q.times) \o <<"}">>
      [] q.kind = "AtLeast" -> <<"{">> \o Decimal(q.times) \o <<",", "}">>
      [] q.kind = "Between" ->
            <<"{">> \o Decimal(q.low) \o <<",">> \o Decimal(q.high) \o <<"}">>
      [] q.kind = "BetweenLazy" ->
            <<"{">> \o Decimal(q.low) \o <<",">> \o Decimal(q.high)
            \o <<"}", "?">>

FusableKindsWithoutSets == {"Char", "Range"}

FusableKinds == {"Char", "AnyOfChars", "Range"}

(* AnyOf.__str__, lines 461-471: what a child adds to the fused class *)
fusable(e) ==
    CASE e.kind = "Char" -> Escaped(<<e.char>>)
      [] e.kind = "AnyOfChars" -> Escaped(e.chars)
      [] e.kind = "Range" ->
            Escaped(<<e.low>>) \o <<"-">> \o Escaped(<<e.high>>)
      [] OTHER -> <<>>

RECURSIVE Join(_, _)
Join(sep, bits) ==
    IF bits = <<>> THEN <<>>
    ELSE IF Len(bits) = 1 THEN bits[1]
    ELSE bits[1] \o sep \o Join(sep, Tail(bits))

RECURSIVE Str(_, _)
Str(h, id) ==
    IF id = None THEN <<"N", "o", "n", "e">>
    ELSE
    LET e == h[id]
        texts == [i \in DOMAIN e.children |-> Str(h, e.children[i])]
        inner == Join(<<>>, texts)
    IN  CASE e.kind \in {"Root", "Subexpression"} -> inner
          [] e.kind = "Capture" -> <<"(">> \o inner \o <<")">>
          [] e.kind = "NamedCapture" ->
                <<"(", "?", "P", "<">> \o e.name \o <<">">> \o inner \o <<")">>
          [] e.kind = "Group" -> <<"(", "?", ":">> \o inner \o <<")">>
          [] e.kind = "AssertAhead" -> <<"(", "?", "=">> \o inner \o <<")">>
          [] e.kind = "AssertNotAhead" -> <<"(", "?", "!">> \o inner \o <<")">>
          [] e.kind = "AnyOf" ->
                LET fused == Join(<<>>, [i \in DOMAIN e.children |->
                                           fusable(h[e.children[i]])])
                    others == SelectSeq(e.children,
                                  LAMBDA c : h[c].kind \notin FusableKinds)
                    inner_bits == [i \in DOMAIN others |-> Str(h, others[i])]
                IN  IF fused # <<>>
                    THEN IF inner_bits = <<>>
                         THEN <<"[">> \o fused \o <<"]">>
                         ELSE <<"(", "?", ":">>
                              \o Join(<<"|">>, Append(inner_bits,
                                         <<"[">> \o fused \o <<"]">>))
                              \o <<")">>
                    ELSE <<"(", "?", ":">> \o Join(<<"|">>, inner_bits)
                         \o <<")">>
          [] e.kind \in QuantifierKinds ->
                (IF e.child # None /\ h[e.child].kind \in QuantifierRequiresGroup
                 THEN <<"(", "?", ":">> \o Str(h, e.child) \o <<")">>
                 ELSE Str(h, e.child)) \o symbol(e)
          [] e.kind = "String" -> Escaped(e.string)
          [] e.kind = "Char" -> Escaped(<<e.char>>)
          [] e.kind = "AnyOfChars" -> <<"[">> \o Escaped(e.chars) \o <<"]">>
          [] e.kind = "AnythingButChars" ->
                <<"[", "^">> \o Escaped(e.chars) \o <<"]">>
          [] e.kind = "AnythingButString" ->
                <<"(", "?", ":">> \o Negated(e.string) \o <<")">>
          [] e.kind = "Range" ->
                <<"[">> \o Escaped(<<e.low>>) \o <<"-">> \o Escaped(<<e.high>>)
                \o <<"]">>
          [] e.kind = "AnythingButRange" ->
                <<"[", "^">> \o Escaped(<<e.low>>) \o <<"-">>
                \o Escaped(<<e.high>>) \o <<"]">>
          [] e.kind = "NamedBackReference" ->
                <<"\\", "g", "<">> \o e.name \o <<">">>
          [] e.kind = "Backreference" -> <<"\\">> \o Decimal(e.index)
          [] OTHER -> Constant(e.kind)

(* SuperExpressive.__str__ *)
__str__(h, self) == Str(h, self.stack[1])

------------------------------------------------------------------------------
(* __init__.py: merging a sub-expression *)

RECURSIVE _merge_in_element(_, _, _, _, _)
RECURSIVE MergeChildren(_, _, _, _, _)

ShiftedIndexUnshifted(self, index) == index

(* _merge_in_element, line 154 *)
ShiftedIndex(self, index) == index + self.total_capture_groups

(* The steps of _merge_in_element work on m = [err, heap, merged, element]:
   the exception raised, or the heap and the values of the local variables
   merged and element.  A step does nothing to an element that is not of
   its class. *)

(* element = <the object constructed as r> *)
Rebound(m, r) ==
    IF r.err # "" THEN Raise(r.err)
    ELSE [m EXCEPT !.heap = r.heap, !.element = r.id]

(* lines 153-155 *)
ShiftBackreference(self, m) ==
    IF m.heap[m.element].kind # "Backreference" THEN m
    ELSE Rebound(m, Alloc(m.heap,
             [kind |-> "Backreference",
              index |-> ShiftedIndex(self, m.heap[m.element].index)]))

(* lines 160-163 *)
PrefixNamedCapture(m, namespace) ==
    IF m.heap[m.element].kind # "NamedCapture" \/ namespace = <<>> THEN m
    ELSE IF PostInit([m.heap[m.element] EXCEPT !.name = namespace \o @]) # ""
    THEN Raise(PostInit([m.heap[m.element] EXCEPT !.name = namespace \o @]))
    ELSE Rebound(m, Alloc(m.heap,
             [m.heap[m.element] EXCEPT !.name = namespace \o @]))

AddNamedGroupUnchecked(self, m) ==
    IF m.err # "" THEN m
    ELSE IF m.heap[m.element].kind # "NamedCapture" THEN m
    ELSE [m EXCEPT !.merged =
             _replace(m.merged,
                 [named_groups |-> self.named_groups
                                   \cup {m.heap[m.element].name}])]

(* lines 164-170 *)
AddNamedGroup(self, m) ==
    IF m.err # "" THEN m
    ELSE IF m.heap[m.element].kind # "NamedCapture" THEN m
    ELSE IF m.heap[m.element].name \in self.named_groups
    THEN Raise("ValueError")
    ELSE [m EXCEPT !.merged =
             _replace(m.merged,
                 [named_groups |-> self.named_groups
                                   \cup {m.heap[m.element].name}])]

(* lines 172-174 *)
RebuildNamedBackReference(m, namespace) ==
    IF m.err # "" THEN m
    ELSE IF m.heap[m.element].kind # "NamedBackReference" \/ namespace = <<>>
    THEN m
    ELSE Rebound(m, Alloc(m.heap, [kind |-> "NamedBackReference",
                                   name |-> m.heap[m.element].name]))

(* lines 177-182 and 186-191: c is what the recursive call on the child
   old gives; merged is rebound to its first component, and element to
   element.replace_child(old, <its second component>) *)
ChildMerged(m, old, c) ==
    IF c.err # "" THEN Raise(c.err)
    ELSE Rebound([m EXCEPT !.heap = c.heap, !.merged = c.merged],
                 replace_child(c.heap, m.element, old, c.element))

(* lines 176-182 *)
MergeChild(m, namespace, ignore_start_and_end) ==
    IF m.err # "" THEN m
    ELSE IF m.heap[m.element].kind \notin ContainsChild THEN m
    ELSE ChildMerged(m, m.heap[m.element].child,
             _merge_in_element(m.heap, m.merged, m.heap[m.element].child,
                               namespace, ignore_start_and_end))

(* lines 185-191: the loop over the children the element had when the loop
   began; i is the next one *)
MergeChildren(m, children, i, namespace, ignore_start_and_end) ==
    IF m.err # "" \/ i > Len(children) THEN m
    ELSE MergeChildren(
             ChildMerged(m, children[i],
                 _merge_in_element(m.heap, m.merged, children[i],
                                   namespace, ignore_start_and_end)),
             children, i + 1, namespace, ignore_start_and_end)

(* lines 184-191 *)
MergeAllChildren(m, namespace, ignore_start_and_end) ==
    IF m.err # "" THEN m
    ELSE IF m.heap[m.element].kind \notin ContainsChildren THEN m
    ELSE MergeChildren(m, m.heap[m.element].children, 1, namespace,
                       ignore_start_and_end)

MergeStartOfInputKept(m, ignore_start_and_end) ==
    IF m.err # "" THEN m
    ELSE IF m.heap[m.element].kind # "StartOfInput" THEN m
    ELSE IF ignore_start_and_end THEN m
    ELSE IF _start_defined(m.heap, m.merged)
            /\ m.merged.check_simple_start_and_end
    THEN Raise("ValueError")
    ELSE IF _end_defined(m.heap, m.merged)
            /\ m.merged.check_simple_start_and_end
    THEN Raise("ValueError")
    ELSE m

(* lines 193-207 *)
MergeStartOfInput(m, ignore_start_and_end) ==
    IF m.err # "" THEN m
    ELSE IF m.heap[m.element].kind # "StartOfInput" THEN m
    ELSE IF ignore_start_and_end
    THEN Rebound(m, Alloc(m.heap, [kind |-> "Noop"]))
    ELSE IF _start_defined(m.heap, m.merged)
            /\ m.merged.check_simple_start_and_end
    THEN Raise("ValueError")
    ELSE IF _end_defined(m.heap, m.merged)
            /\ m.merged.check_simple_start_and_end
    THEN Raise("ValueError")
    ELSE m

MergeEndOfInputDropped(m, ignore_start_and_end) ==
    IF m.err # "" THEN m
    ELSE IF m.heap[m.element].kind # "EndOfInput" THEN m
    ELSE Rebound(m, Alloc(m.heap, [kind |-> "Noop"]))

(* lines 209-217 *)
MergeEndOfInput(m, ignore_start_and_end) ==
    IF m.err # "" THEN m
    ELSE IF m.heap[m.element].kind # "EndOfInput" THEN m
    ELSE IF ignore_start_and_end
    THEN Rebound(m, Alloc(m.heap, [kind |-> "Noop"]))
    ELSE IF _end_defined(m.heap, m.merged)
            /\ m.merged.check_simple_start_and_end
    THEN Raise("ValueError")
    ELSE m

(* _merge_in_element: gives [err, heap, merged, element].  The child of a
   quantifier that has none is None, which is of no class. *)
_merge_in_element(h, self, element, namespace, ignore_start_and_end) ==
    IF element = None
    THEN [err |-> "", heap |-> h, merged |-> self, element |-> element]
    ELSE
    MergeEndOfInput(
      MergeStartOfInput(
        MergeAllChildren(
          MergeChild(
            RebuildNamedBackReference(
              AddNamedGroup(self,
                PrefixNamedCapture(
                  ShiftBackreference(self,
                    [err |-> "", heap |-> h, merged |-> self,
                     element |-> element]),
                  namespace)),
              namespace),
            namespace, ignore_start_and_end),
          namespace, ignore_start_and_end),
        ignore_start_and_end),
      ignore_start_and_end)

(* subexpression, lines 460-476: the flags of the state that is pushed on *)
MergeFlags(self, merged, expression) ==
    LET m1 == IF expression.f_ignorecase
              THEN _replace(self, [f_ignorecase |-> TRUE]) ELSE merged
        m2 == IF expression.f_multiline
              THEN _replace(self, [f_multiline |-> TRUE]) ELSE m1
        m3 == IF expression.f_dotall
              THEN _replace(self, [f_dotall |-> TRUE]) ELSE m2
    IN  IF expression.f_global
        THEN _replace(self, [f_global |-> TRUE]) ELSE m3

NotEnded(p) == p

(* subexpression, line 478: .end() on what _push gave *)
Ended(p) ==
    IF p.err # "" THEN Raise(p.err) ELSE end(p.heap, p.se)

PushMergedUnchecked(self, expression, ignore_flags, m) ==
    IF m.err # "" THEN Raise(m.err)
    ELSE Ended(_push(m.heap,
                     IF ignore_flags THEN m.merged
                     ELSE MergeFlags(self, m.merged, expression),
                     [kind |-> "Subexpression",
                      children |-> m.heap[m.element].children]))

PushMergedAlways(self, expression, ignore_flags, m) ==
    IF m.err # "" THEN Raise(m.err)
    ELSE IF \/ self.f_unicode # expression.f_unicode
            \/ self.f_ascii # expression.f_ascii
            \/ self.f_locale # expression.f_locale
    THEN Raise("AttributeError")
    ELSE Ended(_push(m.heap, MergeFlags(self, m.merged, expression),
                     [kind |-> "Subexpression",
                      children |-> m.heap[m.element].children]))

(* subexpression, lines 461-478, with m = [err, heap, merged, element]
   what _merge_in_element gave for the root of expression *)
PushMerged(self, expression, ignore_flags, m) ==
    IF m.err # "" THEN Raise(m.err)
    \* lines 464-468: the message of the ValueError reads
    \* expression.flags, which the class does not define; __getattr__
    \* (lines 538-542) raises AttributeError for it
    ELSE IF /\ ~ ignore_flags
            /\ \/ self.f_unicode # expression.f_unicode
               \/ self.f_ascii # expression.f_ascii
               \/ self.f_locale # expression.f_locale
    THEN Raise("AttributeError")
    ELSE Ended(_push(m.heap,
                     IF ignore_flags THEN m.merged
                     ELSE MergeFlags(self, m.merged, expression),
                     [kind |-> "Subexpression",
                      children |-> m.heap[m.element].children]))

subexpression_unchecked(h, self, expression, namespace, ignore_flags, ignore_start_and_end) ==
    PushMerged(self, expression, ignore_flags,
        _merge_in_element(h, self, expression.stack[1], namespace,
                          ignore_start_and_end))

subexpression(h, self, expression, namespace, ignore_flags, ignore_start_and_end) ==
    IF Len(expression.stack) # 1 THEN Raise("ValueError")
    ELSE PushMerged(self, expression, ignore_flags,
             _merge_in_element(h, self, expression.stack[1], namespace,
                               ignore_start_and_end))

------------------------------------------------------------------------------
(* The caller: one call on cur per step *)

NoArg == [kind |-> "None"]

Call(op, arg, r) ==
    /\ r.err = "" => budget > 0
    /\ prev' = cur
    /\ last' = [op |-> op, arg |-> arg, err |-> r.err]
    /\ IF r.err = ""
       THEN /\ heap' = r.heap
            /\ cur' = r.se
            /\ budget' = budget - 1
       ELSE UNCHANGED <<heap, cur, budget>>
    /\ UNCHANGED <<src, snap, out, keeps>>

Digit == [kind |-> "Digit"]
String == [kind |-> "String", string |-> <<"a", "b">>]
Char(char) == [kind |-> "Char", char |-> char]
CharRange(low, high) == [kind |-> "Range", low |-> low, high |-> high]
AnyOfChars(chars) == [kind |-> "AnyOfChars", chars |-> chars]
Opt == [kind |-> "Opt", child |-> None]
Exactly(times) == [kind |-> "Exactly", times |-> times, child |-> None]

LeafOf(leaves) ==
    \E e \in leaves : Call("leaf", e, leaf(heap, cur, e))

NamedBackreferenceOf(names) ==
    \E name \in names :
        Call("named_backreference",
             [kind |-> "NamedBackReference", name |-> name],
             named_backreference(heap, cur, name))

(* backreference(index) with every index the state accepts, with 0, and
   with the first index beyond the groups counted so far *)
Backreference ==
    \E index \in 0 .. cur.total_capture_groups + 1 :
        Call("backreference", [kind |-> "Backreference", index |-> index],
             backreference(heap, cur, index))

ContainerOf(kinds) ==
    \E kind \in kinds :
        Call("container", [kind |-> kind], container(heap, cur, kind))

Capture == Call("capture", [kind |-> "Capture"], capture(heap, cur))

NamedCaptureOf(names) ==
    \E name \in names :
        Call("named_capture", [kind |-> "NamedCapture", name |-> name],
             named_capture(heap, cur, name))

QuantifyOf(quantifiers) ==
    \E q \in quantifiers : Call("quantify", q, _quantify(heap, cur, q))

AsciiBackspace ==
    Call("ascii_backspace", [kind |-> "AsciiBackspace"],
         ascii_backspace(heap, cur))

End == Call("end", NoArg, end(heap, cur))

(* str(cur) *)
Render ==
    /\ last.op # "str"
    /\ prev' = cur
    /\ last' = [op |-> "str", arg |-> NoArg, err |-> ""]
    /\ out' = __str__(heap, cur)
    /\ UNCHANGED <<heap, cur, src, snap, budget, keeps>>

(* cur.ascii *)
Ascii ==
    Call("ascii", NoArg,
         [err |-> "", heap |-> heap, se |-> _replace(cur, [f_ascii |-> TRUE])])

StartOfInput ==
    Call("start_of_input", [kind |-> "StartOfInput"],
         start_of_input(heap, cur))

EndOfInput ==
    Call("end_of_input", [kind |-> "EndOfInput"], end_of_input(heap, cur))

(* cur.unicode *)
Unicode ==
    Call("unicode", NoArg,
         [err |-> "", heap |-> heap, se |-> _replace(cur, [f_unicode |-> TRUE])])

(* cur.locale *)
Locale ==
    Call("locale", NoArg,
         [err |-> "", heap |-> heap, se |-> _replace(cur, [f_locale |-> TRUE])])

(* cur.allow_multiple_matches *)
AllowMultipleMatches ==
    Call("allow_multiple_matches", NoArg,
         [err |-> "", heap |-> heap, se |-> _replace(cur, [f_global |-> TRUE])])

(* cur.line_by_line *)
LineByLine ==
    Call("line_by_line", NoArg,
         [err |-> "", heap |-> heap,
          se |-> _replace(cur, [f_multiline |-> TRUE])])

(* cur.single_line *)
SingleLine ==
    Call("single_line", NoArg,
         [err |-> "", heap |-> heap, se |-> _replace(cur, [f_dotall |-> TRUE])])

(* cur.case_insensitive *)
CaseInsensitive ==
    Call("case_insensitive", NoArg,
         [err |-> "", heap |-> heap,
          se |-> _replace(cur, [f_ignorecase |-> TRUE])])

SubexpressionOf(namespaces, flag_options, anchor_options) ==
    \E namespace \in namespaces, ignore_flags \in flag_options,
       ignore_start_and_end \in anchor_options :
        Call("subexpression",
             [kind |-> "Subexpression", namespace |-> namespace,
              ignore_flags |-> ignore_flags,
              ignore_start_and_end |-> ignore_start_and_end],
             subexpression(heap, cur, src, namespace, ignore_flags,
                           ignore_start_and_end))

(* src = cur: the caller keeps the state it holds *)
Keep ==
    /\ keeps > 0
    /\ src # cur
    /\ src' = cur
    /\ snap' = DeepState(heap, cur)
    /\ keeps' = keeps - 1
    /\ prev' = cur
    /\ last' = [op |-> "keep", arg |-> NoArg, err |-> ""]
    /\ UNCHANGED <<heap, cur, out, budget>>

(* cur = src: the caller goes on from the state it kept *)
Branch ==
    /\ src # cur
    /\ cur' = src
    /\ prev' = src
    /\ last' = [op |-> "branch", arg |-> NoArg, err |-> ""]
    /\ UNCHANGED <<heap, src, snap, out, budget, keeps>>

(* cur = SuperExpressive(): the caller, having kept the expression it
   built, starts another one *)
New ==
    /\ cur = src
    /\ cur # SuperExpressive(FALSE)
    /\ cur' = SuperExpressive(FALSE)
    /\ prev' = cur'
    /\ last' = [op |-> "new", arg |-> NoArg, err |-> ""]
    /\ UNCHANGED <<heap, src, snap, out, budget, keeps>>

(* cur = SuperExpressive(check_simple_start_and_end=check): the caller,
   having kept the expression it built, starts another one *)
NewOf(checks) ==
    /\ cur = src
    /\ \E check \in checks :
           /\ cur # SuperExpressive(check)
           /\ cur' = SuperExpressive(check)
    /\ prev' = cur'
    /\ last' = [op |-> "new", arg |-> NoArg, err |-> ""]
    /\ UNCHANGED <<heap, src, snap, out, budget, keeps>>

Start(n, checks) ==
    /\ heap = <<Root>>
    /\ \E check \in checks : cur = SuperExpressive(check)
    /\ src = cur
    /\ snap = DeepState(heap, cur)
    /\ prev = cur
    /\ last = [op |-> "init", arg |-> NoArg, err |-> ""]
    /\ out = <<>>
    /\ budget = n
    /\ keeps = MaxKeeps

------------------------------------------------------------------------------
(* Building one expression *)

Init == Start(MaxOps, {FALSE})

Leaf == LeafOf({Digit})
NamedBackreference == NamedBackreferenceOf({<<"a">>})
Container == ContainerOf({"Group"})
NamedCapture == NamedCaptureOf({<<"a">>})
Quantify == QuantifyOf({Opt, Exactly(2)})

Next ==
    \/ Leaf
    \/ NamedBackreference
    \/ Backreference
    \/ Container
    \/ Capture
    \/ NamedCapture
    \/ Quantify
    \/ End
    \/ Render

Spec == Init /\ [][Next]_vars

------------------------------------------------------------------------------
(* Keeping a state and deriving several continuations from it *)

InitKeep == Start(MaxKeepOps, BOOLEAN)

KeepLeaf == LeafOf({Digit})
KeepNamedCapture == NamedCaptureOf({<<"a">>})
KeepQuantify == QuantifyOf({Opt})

NextKeep ==
    \/ KeepLeaf
    \/ Capture
    \/ KeepNamedCapture
    \/ KeepQuantify
    \/ End
    \/ Ascii
    \/ Keep
    \/ Branch

SpecKeep == InitKeep /\ [][NextKeep]_vars

------------------------------------------------------------------------------
(* Merging a kept expression into the current one *)

InitMerge == Start(MaxMergeOps, {FALSE})

MergeNamedCapture == NamedCaptureOf({<<"a">>})
MergeNamedBackreference == NamedBackreferenceOf({<<"a">>})
MergeQuantify == QuantifyOf({Opt})
Subexpression == SubexpressionOf({<<>>, <<"n">>}, {TRUE}, {TRUE})

NextMerge ==
    \/ Capture
    \/ MergeNamedCapture
    \/ Backreference
    \/ MergeNamedBackreference
    \/ MergeQuantify
    \/ End
    \/ Keep
    \/ New
    \/ Subexpression

SpecMerge == InitMerge /\ [][NextMerge]_vars

------------------------------------------------------------------------------
(* Merging a kept expression with every choice of the options *)

InitOptions == Start(MaxOptionOps, {FALSE})

OptionsNamedCapture == NamedCaptureOf({<<"a">>})
OptionsSubexpression ==
    SubexpressionOf({<<>>, <<"n">>, <<"m">>}, BOOLEAN, BOOLEAN)

NextOptions ==
    \/ OptionsNamedCapture
    \/ End
    \/ CaseInsensitive
    \/ Keep
    \/ New
    \/ OptionsSubexpression

SpecOptions == InitOptions /\ [][NextOptions]_vars

------------------------------------------------------------------------------
(* Naming groups and referring to them by name *)

InitNames == Start(MaxNameOps, {FALSE})

(* names that are valid, and names that are empty, start with a digit or an
   underscore, or hold a character that is not allowed *)
Names ==
    {<<>>, <<"a">>, <<"b">>, <<"a", "1">>, <<"a", "_">>, <<"1">>,
     <<"_", "a">>, <<"a", "-">>}

NamesNamedCapture == NamedCaptureOf(Names)
NamesNamedBackreference == NamedBackreferenceOf(Names)
NamesQuantify == QuantifyOf({Opt})

NextNames ==
    \/ NamesNamedCapture
    \/ NamesNamedBackreference
    \/ NamesQuantify
    \/ End

SpecNames == InitNames /\ [][NextNames]_vars

------------------------------------------------------------------------------
(* Anchoring an expression, with and without check_simple_start_and_end,
   and merging a kept expression that has anchors *)

InitAnchors == Start(MaxAnchorOps, BOOLEAN)

AnchorsContainer == ContainerOf({"Group"})
AnchorsNew == NewOf(BOOLEAN)
AnchorsSubexpression == SubexpressionOf({<<>>}, {TRUE}, BOOLEAN)

NextAnchors ==
    \/ StartOfInput
    \/ EndOfInput
    \/ AnchorsContainer
    \/ End
    \/ Keep
    \/ AnchorsNew
    \/ AnchorsSubexpression

SpecAnchors == InitAnchors /\ [][NextAnchors]_vars

------------------------------------------------------------------------------
(* Setting flags while building an expression *)

InitFlags == Start(MaxFlagOps, {FALSE})

NextFlags ==
    \/ Ascii
    \/ Unicode
    \/ Locale
    \/ CaseInsensitive
    \/ Capture
    \/ End

SpecFlags == InitFlags /\ [][NextFlags]_vars

------------------------------------------------------------------------------
(* Merging expressions that have flags set *)

InitFlagMerge == Start(MaxFlagMergeOps, {FALSE})

FlagMergeLeaf == LeafOf({Digit})
FlagMergeSubexpression == SubexpressionOf({<<>>}, BOOLEAN, {TRUE})

NextFlagMerge ==
    \/ FlagMergeLeaf
    \/ Ascii
    \/ CaseInsensitive
    \/ LineByLine
    \/ SingleLine
    \/ AllowMultipleMatches
    \/ Keep
    \/ New
    \/ FlagMergeSubexpression

SpecFlagMerge == InitFlagMerge /\ [][NextFlagMerge]_vars

------------------------------------------------------------------------------
(* Building alternatives and rendering them *)

InitAnyOf == Start(MaxAnyOfOps, {FALSE})

AnyOfLeaf ==
    LeafOf({Digit, String, Char("a"), CharRange("a", "b"),
            AnyOfChars(<<"m", ".">>)})
AnyOfContainer == ContainerOf({"AnyOf", "Group"})
AnyOfQuantify == QuantifyOf({Opt})

NextAnyOf ==
    \/ AnyOfLeaf
    \/ AnyOfContainer
    \/ AnyOfQuantify
    \/ AsciiBackspace
    \/ End
    \/ Render

SpecAnyOf == InitAnyOf /\ [][NextAnyOf]_vars

------------------------------------------------------------------------------
(* Quantifying leaves, groups and merged expressions, and rendering them *)

InitQuantified == Start(MaxQuantifiedOps, {FALSE})

QuantifiedLeaf == LeafOf({Digit, String})
QuantifiedContainer == ContainerOf({"Group"})
QuantifiedQuantify == QuantifyOf({Opt})
QuantifiedSubexpression == SubexpressionOf({<<>>}, {TRUE}, {TRUE})

NextQuantified ==
    \/ QuantifiedLeaf
    \/ QuantifiedContainer
    \/ QuantifiedQuantify
    \/ End
    \/ Keep
    \/ New
    \/ QuantifiedSubexpression
    \/ Render

SpecQuantified == InitQuantified /\ [][NextQuantified]_vars

------------------------------------------------------------------------------
(* Merging an expression with captures and backreferences more than once *)

InitRemerge == Start(MaxRemergeOps, {FALSE})

RemergeSubexpression == SubexpressionOf({<<>>}, {TRUE}, {TRUE})

NextRemerge ==
    \/ Capture
    \/ Backreference
    \/ End
    \/ Keep
    \/ New
    \/ RemergeSubexpression

SpecRemerge == InitRemerge /\ [][NextRemerge]_vars

------------------------------------------------------------------------------
(* What the properties read *)

LeafOps == {"leaf", "backreference", "named_backreference"}
PushOps == LeafOps \cup {"container", "capture", "named_capture", "quantify"}

Returns == last.err = ""
Raises == last.err # ""

(* the objects of a tree, parents before children, left to right *)
RECURSIVE Walk(_, _)
Walk(h, id) ==
    IF id = None THEN <<>>
    ELSE IF "children" \in DOMAIN h[id]
    THEN <<id>> \o Join(<<>>, [i \in DOMAIN h[id].children |->
                                 Walk(h, h[id].children[i])])
    ELSE IF "child" \in DOMAIN h[id]
    THEN <<id>> \o Walk(h, h[id].child)
    ELSE <<id>>

OfKind(h, root, kinds) ==
    SelectSeq(Walk(h, root), LAMBDA id : h[id].kind \in kinds)

(* the indexes of the indexed backreferences of a tree, in order *)
Backrefs(h, root) ==
    LET ids == OfKind(h, root, {"Backreference"})
    IN  [i \in DOMAIN ids |-> h[ids[i]].index]

(* the names of the named captures and named backreferences, in order *)
NamesOf(h, root, kind) ==
    LET ids == OfKind(h, root, {kind})
    IN  [i \in DOMAIN ids |-> h[ids[i]].name]

Range(f) == {f[i] : i \in DOMAIN f}

(* the multi-child containers of an open stack, by kind *)
OpenContainers(h, stack) ==
    LET ids == SelectSeq(stack, LAMBDA id : h[id].kind \in ContainsChildren)
    IN  [i \in DOMAIN ids |-> h[ids[i]].kind]

IsPrefix(s, t) == Len(s) <= Len(t) /\ SubSeq(t, 1, Len(s)) = s

Pending(h, stack) ==
    /\ h[Top(stack)].kind \in QuantifierKinds
    /\ h[Top(stack)].child = None

------------------------------------------------------------------------------
(* C1: str() of a state whose open stack holds more than the root raises
   and gives no text; it returns a text only when every container that was
   opened has been closed. *)
C1_RenderNeedsClosedStack ==
    last.op = "str" =>
        /\ Len(prev.stack) > 1 => Raises /\ out = <<>>
        /\ Returns => Len(prev.stack) = 1

(* C2: the state the caller kept is, with everything its stack reaches, its
   named_groups, total_capture_groups, flags and strict setting, what it
   was when it was kept, whatever was called since, on it or on states
   derived from it, and whether the calls returned or raised. *)
C2_KeptStateUnchanged == DeepState(heap, src) = snap

(* a leaf was appended to the kept state itself while it had a container
   open *)
C2_Witness ==
    /\ keeps < MaxKeeps
    /\ prev = src
    /\ last.op = "leaf" /\ Returns
    /\ Len(src.stack) > 1
    /\ cur # src

(* C3: end() raises with only the root on the stack, raises when the top of
   the stack is not a multi-child container, and otherwise returns the
   state with exactly that container, and the quantifier it completes if
   there is one, taken off the stack. *)
C3_End ==
    last.op = "end" =>
        LET s == prev.stack
            below == ButLast(s)
        IN  IF Len(s) = 1 \/ heap[Top(s)].kind \notin ContainsChildren
            THEN Raises /\ cur = prev
            ELSE /\ Returns
                 /\ cur = [prev EXCEPT !.stack =
                              IF heap[Top(below)].kind \in QuantifierKinds
                              THEN ButLast(below) ELSE below]

(* end() closed a container and the quantifier it was the child of *)
C3_Witness ==
    /\ last.op = "end" /\ Returns
    /\ Len(cur.stack) = Len(prev.stack) - 2

(* C4: a leaf appended while the top of the stack is a quantifier without
   child becomes that child, and the quantifier leaves the stack in the
   same call; a leaf appended to a multi-child container becomes its last
   child, after the quantified element if that was the last one; and no
   append takes a multi-child container off the stack. *)
C4_AutoClose ==
    /\ (last.op \in LeafOps /\ Returns) =>
          LET s == prev.stack
              t == cur.stack
          IN  IF heap[Top(s)].kind \in QuantifierKinds
              THEN /\ Len(t) = Len(s) - 1
                   /\ LET was == heap[s[Len(s) - 1]].children
                          now == heap[Top(t)].children
                          q == heap[Top(now)]
                      IN  /\ Top(was) = Top(s)
                          /\ Len(now) = Len(was)
                          /\ ButLast(now) = ButLast(was)
                          /\ q.kind = heap[Top(s)].kind
                          /\ q.child # None
                          /\ heap[q.child] = last.arg
              ELSE /\ Len(t) = Len(s)
                   /\ LET was == heap[Top(s)].children
                          now == heap[Top(t)].children
                      IN  /\ ButLast(now) = was
                          /\ heap[Top(now)] = last.arg
    /\ (last.op \in PushOps /\ Returns) =>
          IsPrefix(OpenContainers(heap, prev.stack),
                   OpenContainers(heap, cur.stack))

(* a leaf was appended right after a quantified element *)
C4_Witness ==
    /\ last.op \in LeafOps /\ Returns
    /\ heap[Top(prev.stack)].kind \in ContainsChildren
    /\ heap[Top(prev.stack)].children # <<>>
    /\ LET q == heap[Top(heap[Top(prev.stack)].children)]
       IN  q.kind \in QuantifierKinds /\ q.child # None

(* C5: a quantifier operation called while the top of the stack is a
   quantifier without child raises; one that returns was called with a
   multi-child container on top of the stack, so no quantifier is ever the
   child of a quantifier. *)
C5_NoQuantifierOnQuantifier ==
    /\ (last.op = "quantify" /\ Pending(heap, prev.stack)) => Raises
    /\ (last.op = "quantify" /\ Returns) =>
          heap[Top(prev.stack)].kind \in ContainsChildren
    /\ \A id \in DOMAIN heap :
          (heap[id].kind \in QuantifierKinds /\ heap[id].child # None) =>
              heap[heap[id].child].kind \notin QuantifierKinds

(* optional was called, with a valid argument, on a pending quantifier *)
C5_Witness ==
    /\ last.op = "quantify" /\ Raises
    /\ PostInit(last.arg) = ""
    /\ Pending(heap, prev.stack)

(* C6: backreference(i) returns exactly when 1 <= i <= total_capture_groups;
   it raises for 0 and for an index beyond the groups created so far. *)
C6_BackreferenceRange ==
    last.op = "backreference" =>
        (Returns <=> (1 <= last.arg.index
                      /\ last.arg.index <= prev.total_capture_groups))

(* C7: total_capture_groups is the number of capture and named-capture
   groups of the expression. *)
C7_CountsAllCaptures ==
    cur.total_capture_groups =
        Len(OfKind(heap, cur.stack[1], {"Capture", "NamedCapture"}))

(* C8: after subexpression(source) returns, total_capture_groups is what it
   was plus the number of indexed captures of the source. *)
C8_MergeAddsCaptures ==
    (last.op = "subexpression" /\ Returns) =>
        cur.total_capture_groups =
            prev.total_capture_groups
            + Len(OfKind(heap, src.stack[1], {"Capture"}))

(* C9: after subexpression(source) returns, the indexed backreferences of
   the target are those it had, with their indexes, followed by those of
   the source, at whatever depth, each increased by the
   total_capture_groups the target had when the merge was called. *)
C9_MergeShiftsBackreferences ==
    (last.op = "subexpression" /\ Returns) =>
        Backrefs(heap, cur.stack[1]) =
            Backrefs(heap, prev.stack[1])
            \o [i \in DOMAIN Backrefs(heap, src.stack[1]) |->
                   Backrefs(heap, src.stack[1])[i] + prev.total_capture_groups]

(* a source with a backreference inside a container was merged into a
   target that counts a capture group and holds a backreference itself *)
C9_Witness ==
    /\ last.op = "subexpression" /\ Returns
    /\ prev.total_capture_groups >= 1
    /\ Backrefs(heap, prev.stack[1]) # <<>>
    /\ \E id \in Range(OfKind(heap, src.stack[1], {"Backreference"})) :
           /\ heap[id].index >= 1
           /\ id \notin Range(heap[src.stack[1]].children)

(* C10: after subexpression(source, namespace) returns, the named captures
   and the named backreferences of the target are those it had followed by
   those of the source with the namespace put before each name (the names
   as they were when the namespace is empty), and every named
   backreference of the result names a named capture of the result. *)
C10_MergeNamespacesNames ==
    (last.op = "subexpression" /\ Returns) =>
        LET prefixed(names) ==
                [i \in DOMAIN names |-> last.arg.namespace \o names[i]]
            captures(root) == NamesOf(heap, root, "NamedCapture")
            references(root) == NamesOf(heap, root, "NamedBackReference")
        IN  /\ captures(cur.stack[1]) =
                  captures(prev.stack[1]) \o prefixed(captures(src.stack[1]))
            /\ references(cur.stack[1]) =
                  references(prev.stack[1])
                  \o prefixed(references(src.stack[1]))
            /\ Range(references(cur.stack[1]))
                  \subseteq Range(captures(cur.stack[1]))

(* C11: subexpression(source, namespace) raises, and the caller keeps the
   state it had, whenever a named capture of the source has, with the
   namespace put before it, a name that is in the named_groups of the
   target: the name itself when the namespace is empty, the prefixed name
   otherwise. *)
C11_MergeNameCollision ==
    (/\ last.op = "subexpression"
     /\ \E name \in Range(NamesOf(heap, src.stack[1], "NamedCapture")) :
            last.arg.namespace \o name \in prev.named_groups)
    => Raises /\ cur = prev

(* a complete source was merged under a namespace into a target that
   already had the prefixed name, and not the name itself *)
C11_Witness ==
    /\ last.op = "subexpression" /\ Raises
    /\ Len(src.stack) = 1
    /\ last.arg.namespace # <<>>
    /\ \E name \in Range(NamesOf(heap, src.stack[1], "NamedCapture")) :
           /\ last.arg.namespace \o name \in prev.named_groups
           /\ name \notin prev.named_groups

(* C15: subexpression(source) raises, and the caller keeps the state it
   had, whenever the stack of the source holds more than the root: an open
   container, or a quantifier without child. *)
C15_MergeNeedsCompleteSource ==
    (last.op = "subexpression" /\ Len(src.stack) # 1)
    => Raises /\ cur = prev

(* the source merged ended with a quantifier without child *)
C15_Witness ==
    /\ last.op = "subexpression" /\ Raises
    /\ Pending(heap, src.stack)

(* C12: after subexpression(source, namespace) returns, whatever
   ignore_flags and ignore_start_and_end are, named_groups is what it was
   united with the names of the named captures of the source, each with
   the namespace before it. *)
C12_MergeAddsNames ==
    (last.op = "subexpression" /\ Returns) =>
        cur.named_groups =
            prev.named_groups
            \cup {last.arg.namespace \o name :
                     name \in Range(NamesOf(heap, src.stack[1],
                                             "NamedCapture"))}

(* C13: named_capture(name) returns exactly when name is not empty, starts
   with a letter, holds only letters, digits and underscores, and is not in
   named_groups; the state it returns has that name, and no other, added to
   named_groups and an empty named capture of that name on top of the
   stack; otherwise it raises and the caller keeps the state it had. *)
C13_NamedCapture ==
    last.op = "named_capture" =>
        LET name == last.arg.name
            valid == /\ name # <<>>
                     /\ name[1] \in LETTERS
                     /\ \A i \in DOMAIN name : name[i] \in GROUP_NAME_CHARS
        IN  IF valid /\ name \notin prev.named_groups
            THEN /\ Returns
                 /\ cur.named_groups = prev.named_groups \cup {name}
                 /\ Len(cur.stack) = Len(prev.stack) + 1
                 /\ heap[Top(cur.stack)] =
                        [kind |-> "NamedCapture", name |-> name,
                         children |-> <<>>]
            ELSE Raises /\ cur = prev

(* a second group was named, with a name of letters, digits or underscores *)
C13_Witness ==
    /\ last.op = "named_capture" /\ Returns
    /\ Len(last.arg.name) > 1
    /\ prev.named_groups # {}

(* C14: named_backreference(name) raises when name is not in named_groups,
   and returns, with one more named backreference of that name in the
   expression, whenever the expression holds a named capture of that
   name. *)
C14_NamedBackreference ==
    last.op = "named_backreference" =>
        LET name == last.arg.name
            references(root) == NamesOf(heap, root, "NamedBackReference")
        IN  /\ name \notin prev.named_groups => Raises /\ cur = prev
            /\ name \in Range(NamesOf(heap, prev.stack[1], "NamedCapture"))
                  => /\ Returns
                     /\ Len(references(cur.stack[1])) =
                            Len(references(prev.stack[1])) + 1
                     /\ name \in Range(references(cur.stack[1]))

(* a group that was named and closed was referred to by its name *)
C14_Witness ==
    /\ last.op = "named_backreference" /\ Returns
    /\ \A i \in DOMAIN prev.stack : heap[prev.stack[i]].kind # "NamedCapture"

(* the expression of a state holds an element of one of the kinds, at
   whatever depth *)
Holds(self, kinds) == OfKind(heap, self.stack[1], kinds) # <<>>

(* C16: with check_simple_start_and_end set, start_of_input raises
   whenever the expression holds a start-of-input anchor, at whatever
   depth, in an open or in a closed container. *)
C16_SecondStartRaises ==
    (/\ last.op = "start_of_input"
     /\ prev.check_simple_start_and_end
     /\ Holds(prev, {"StartOfInput"}))
    => Raises

(* C17: with check_simple_start_and_end set, end_of_input raises whenever
   the expression holds an end-of-input anchor. *)
C17_SecondEndRaises ==
    (/\ last.op = "end_of_input"
     /\ prev.check_simple_start_and_end
     /\ Holds(prev, {"EndOfInput"}))
    => Raises

(* C18: with check_simple_start_and_end set, start_of_input raises
   whenever the expression holds an end-of-input anchor. *)
C18_StartAfterEndRaises ==
    (/\ last.op = "start_of_input"
     /\ prev.check_simple_start_and_end
     /\ Holds(prev, {"EndOfInput"}))
    => Raises

(* C19: with check_simple_start_and_end set on the target, subexpression
   with ignore_start_and_end=False raises when the source holds a
   start-of-input and an end-of-input anchor and the target holds an
   end-of-input anchor. *)
C19_MergeClashingAnchorsRaises ==
    (/\ last.op = "subexpression"
     /\ prev.check_simple_start_and_end
     /\ ~ last.arg.ignore_start_and_end
     /\ Holds(src, {"StartOfInput"})
     /\ Holds(src, {"EndOfInput"})
     /\ Holds(prev, {"EndOfInput"}))
    => Raises

(* C20: without check_simple_start_and_end, start_of_input and
   end_of_input return whatever anchors the expression holds, and so does
   subexpression for a complete source, whatever anchors the source and
   the target hold and whether or not they are ignored. *)
C20_LenientNeverRaises ==
    ~ prev.check_simple_start_and_end =>
        /\ last.op \in {"start_of_input", "end_of_input"} => Returns
        /\ (last.op = "subexpression" /\ Len(src.stack) = 1) => Returns

(* a source with a start-of-input anchor was merged, its anchors kept, into
   a lenient target that holds both anchors, the end before the start *)
C20_Witness ==
    /\ last.op = "subexpression" /\ Returns
    /\ ~ prev.check_simple_start_and_end
    /\ ~ last.arg.ignore_start_and_end
    /\ Holds(src, {"StartOfInput"})
    /\ LET anchors == OfKind(heap, prev.stack[1],
                              {"StartOfInput", "EndOfInput"})
       IN  /\ Len(anchors) >= 2
           /\ heap[anchors[1]].kind = "EndOfInput"
           /\ heap[anchors[2]].kind = "StartOfInput"

(* the element that a merge that returned has added: the last child of the
   top of the stack, or the child of the quantifier that is that last
   child *)
Spliced(h, self) ==
    LET added == Top(h[Top(self.stack)].children)
    IN  IF h[added].kind \in QuantifierKinds THEN h[added].child ELSE added

(* the kinds of the elements of a tree below its root, parents before
   children, left to right *)
KindsBelow(h, root) ==
    LET ids == Tail(Walk(h, root))
    IN  [i \in DOMAIN ids |-> h[ids[i]].kind]

(* C21: subexpression with ignore_start_and_end set returns for every
   complete source, whatever anchors the target holds and whether or not
   check_simple_start_and_end is set, and what it adds is the content of
   the source with a no-op in the place of every start-of-input and
   end-of-input anchor, at whatever depth. *)
C21_MergeIgnoresAnchors ==
    (last.op = "subexpression" /\ last.arg.ignore_start_and_end) =>
        /\ Len(src.stack) = 1 => Returns
        /\ Returns =>
              LET was == KindsBelow(heap, src.stack[1])
              IN  KindsBelow(heap, Spliced(heap, cur)) =
                      [i \in DOMAIN was |->
                          IF was[i] \in {"StartOfInput", "EndOfInput"}
                          THEN "Noop" ELSE was[i]]

(* a source with an anchor inside a group was merged, its anchors ignored,
   into a target that checks anchors and holds one *)
C21_Witness ==
    /\ last.op = "subexpression" /\ Returns
    /\ last.arg.ignore_start_and_end
    /\ prev.check_simple_start_and_end
    /\ Holds(prev, {"StartOfInput", "EndOfInput"})
    /\ \E id \in Range(OfKind(heap, src.stack[1],
                              {"StartOfInput", "EndOfInput"})) :
           id \notin Range(heap[src.stack[1]].children)

(* C22: exactly one of f_ascii, f_unicode and f_locale is set; it is
   f_unicode in a new SuperExpressive, the flag of the operation after
   ascii, unicode or locale, and the one that was set before after every
   other operation. *)
C22_OneEncodingFlag ==
    LET encoding(self) == <<self.f_ascii, self.f_unicode, self.f_locale>>
    IN  /\ encoding(cur) \in {<<TRUE, FALSE, FALSE>>, <<FALSE, TRUE, FALSE>>,
                              <<FALSE, FALSE, TRUE>>}
        /\ last.op = "init" => cur.f_unicode
        /\ last.op = "ascii" => cur.f_ascii
        /\ last.op = "unicode" => cur.f_unicode
        /\ last.op = "locale" => cur.f_locale
        /\ last.op \notin {"ascii", "unicode", "locale"} =>
              encoding(cur) = encoding(prev)

(* locale was called on a state that had f_ascii set *)
C22_Witness ==
    /\ last.op = "locale"
    /\ prev.f_ascii
    /\ cur.f_locale

(* The seven flags of a state, and the three that choose the encoding *)
Flags(self) ==
    <<self.f_ignorecase, self.f_multiline, self.f_dotall, self.f_global,
      self.f_ascii, self.f_unicode, self.f_locale>>

Encoding(self) == <<self.f_ascii, self.f_unicode, self.f_locale>>

(* C23: after subexpression(source, ignore_flags=False) returns, each of
   f_ignorecase, f_multiline, f_dotall and f_global is set exactly when it
   was set in the target or is set in the source. *)
C23_MergeOrsFlags ==
    (last.op = "subexpression" /\ ~ last.arg.ignore_flags /\ Returns) =>
        /\ cur.f_ignorecase = (prev.f_ignorecase \/ src.f_ignorecase)
        /\ cur.f_multiline = (prev.f_multiline \/ src.f_multiline)
        /\ cur.f_dotall = (prev.f_dotall \/ src.f_dotall)
        /\ cur.f_global = (prev.f_global \/ src.f_global)

(* C24: subexpression(source, ignore_flags=False) raises when the source
   and the target differ in f_ascii, f_unicode or f_locale, and the caller
   keeps the state it had. *)
C24_MergeIncompatibleFlagsRaises ==
    (/\ last.op = "subexpression"
     /\ ~ last.arg.ignore_flags
     /\ Encoding(prev) # Encoding(src)) =>
        /\ Raises
        /\ cur = prev

(* a merge of a source in another encoding was refused *)
C24_Witness ==
    /\ last.op = "subexpression"
    /\ ~ last.arg.ignore_flags
    /\ Encoding(prev) # Encoding(src)
    /\ Raises

(* C25: subexpression(source, ignore_flags=True) of a complete source
   returns whatever the flags of the source are, and the seven flags of the
   state it returns are those of the target. *)
C25_MergeIgnoresFlags ==
    (last.op = "subexpression" /\ last.arg.ignore_flags) =>
        /\ Len(src.stack) = 1 => Returns
        /\ Returns => Flags(cur) = Flags(prev)

(* a source in another encoding, with a flag the target lacks, was merged *)
C25_Witness ==
    /\ last.op = "subexpression"
    /\ last.arg.ignore_flags
    /\ Returns
    /\ Encoding(prev) # Encoding(src)
    /\ \E i \in 1..4 : Flags(src)[i] /\ ~ Flags(prev)[i]

(* C26: a subexpression that returns has added one Subexpression element,
   whose children are as many as those of the root of the source and of
   the same kinds at every depth: as the last child of the top of the
   stack, the stack being as long as it was, or as the child of the
   quantifier that was on top of the stack, that quantifier having left
   the stack. The open containers are those there were. The text of the
   element is the texts of its children one after the other, and the text
   of the quantifier is that text in a non-capturing group followed by the
   symbol of the quantifier. *)
C26_MergeAddsOneElement ==
    (last.op = "subexpression" /\ Returns) =>
        LET s == prev.stack
            t == cur.stack
            now == heap[Top(t)].children
            node == Spliced(heap, cur)
            text == Str(heap, node)
        IN  /\ Len(t) = IF Pending(heap, s) THEN Len(s) - 1 ELSE Len(s)
            /\ OpenContainers(heap, t) = OpenContainers(heap, s)
            /\ heap[node].kind = "Subexpression"
            /\ Len(heap[node].children) = Len(heap[src.stack[1]].children)
            /\ KindsBelow(heap, node) = KindsBelow(heap, src.stack[1])
            /\ text = Join(<<>>, [i \in DOMAIN heap[node].children |->
                                     Str(heap, heap[node].children[i])])
            /\ IF Pending(heap, s)
               THEN LET was == heap[s[Len(s) - 1]].children
                        q == heap[Top(now)]
                    IN  /\ Top(was) = Top(s)
                        /\ ButLast(now) = ButLast(was)
                        /\ q.kind = heap[Top(s)].kind
                        /\ q.child = node
                        /\ Str(heap, Top(now)) =
                               <<"(", "?", ":">> \o text \o <<")">>
                               \o symbol(q)
               ELSE /\ ButLast(now) = heap[Top(s)].children
                    /\ Top(now) = node

(* a source that holds an element was merged as the child of a quantifier
   inside an open container *)
C26_Witness ==
    /\ last.op = "subexpression" /\ Returns
    /\ Pending(heap, prev.stack)
    /\ heap[src.stack[1]].children # <<>>
    /\ Len(cur.stack) > 1

(* the children of an any_of that are single characters, ranges or sets of
   characters, and the others, each in the order they were appended *)
Fused(h, id) ==
    SelectSeq(h[id].children,
              LAMBDA c : h[c].kind \in {"Char", "Range", "AnyOfChars"})

Alternatives(h, id) ==
    SelectSeq(h[id].children,
              LAMBDA c : h[c].kind \notin {"Char", "Range", "AnyOfChars"})

(* the bracketed class of the fused children of an any_of *)
Class(h, id) ==
    <<"[">>
    \o Join(<<>>, [i \in DOMAIN Fused(h, id) |-> fusable(h[Fused(h, id)[i]])])
    \o <<"]">>

(* the texts of the other children, then the texts given, joined by "|" in
   a non-capturing group *)
Alternation(h, id, more) ==
    <<"(", "?", ":">>
    \o Join(<<"|">>, [i \in DOMAIN Alternatives(h, id) |->
                         Str(h, Alternatives(h, id)[i])] \o more)
    \o <<")">>

(* the any_of elements of the expression rendered *)
Rendered(kinds) ==
    IF last.op = "str" THEN Range(OfKind(heap, cur.stack[1], kinds)) ELSE {}

(* C27, as stated: the text of every any_of is the bracketed class of its
   fused children alone when it has no other child, and otherwise the
   texts of the other children and then the class, joined by "|" in a
   non-capturing group. *)
C27_AnyOfAlwaysFuses ==
    \A id \in Rendered({"AnyOf"}) :
        Str(heap, id) =
            IF Alternatives(heap, id) = <<>> THEN Class(heap, id)
            ELSE Alternation(heap, id, <<Class(heap, id)>>)

(* C27, amended: the text of an any_of that has a single character, a
   range or a set of characters among its children is the bracketed class
   of those children alone when it has no other child, and otherwise the
   texts of the other children and then the class, joined by "|" in a
   non-capturing group; the text of an any_of without such a child is the
   texts of its children joined by "|" in a non-capturing group, without
   any class. The text of an expression that is one any_of is the text of
   that any_of. *)
C27_AnyOfFuses ==
    /\ \A id \in Rendered({"AnyOf"}) :
          Str(heap, id) =
              IF Fused(heap, id) = <<>> THEN Alternation(heap, id, <<>>)
              ELSE IF Alternatives(heap, id) = <<>> THEN Class(heap, id)
              ELSE Alternation(heap, id, <<Class(heap, id)>>)
    /\ \A id \in Rendered({"AnyOf"}) :
          heap[cur.stack[1]].children = <<id>> => out = Str(heap, id)

(* the expression rendered is a closed any_of with a fused child and then
   a child of another kind, which comes first in the text *)
C27_Witness ==
    /\ last.op = "str"
    /\ Len(cur.stack) = 1
    /\ \E id \in Rendered({"AnyOf"}) :
          /\ heap[cur.stack[1]].children = <<id>>
          /\ Len(heap[id].children) = 2
          /\ Fused(heap, id) = <<heap[id].children[1]>>
          /\ Alternatives(heap, id) = <<heap[id].children[2]>>
          /\ out = Alternation(heap, id, <<Class(heap, id)>>)

(* C29: ascii_backspace returns, with the element appended to the any_of,
   when the top of the stack is an any_of; otherwise (the root, another
   container, a quantifier without child, in an any_of or not) it raises
   and the caller keeps the state it had. *)
C29_AsciiBackspaceOnlyInAnyOf ==
    last.op = "ascii_backspace" =>
        IF heap[Top(prev.stack)].kind = "AnyOf"
        THEN /\ Returns
             /\ Len(cur.stack) = Len(prev.stack)
             /\ heap[Top(heap[Top(cur.stack)].children)].kind = "AsciiBackspace"
        ELSE Raises /\ cur = prev

(* ascii_backspace was refused after a quantifier opened in an any_of *)
C29_Witness ==
    /\ last.op = "ascii_backspace" /\ Raises
    /\ Pending(heap, prev.stack)
    /\ heap[prev.stack[Len(prev.stack) - 1]].kind = "AnyOf"

(* C28: the text of a quantifier is the text of its child followed by the
   symbol of the quantifier, the text of the child being in a
   non-capturing group exactly when the child is a String or a
   Subexpression. The text of an expression that is one quantified element
   is the text of that quantifier. *)
C28_QuantifierWrapsStrings ==
    \A id \in Rendered(QuantifierKinds) :
        heap[id].child # None =>
            LET child == heap[id].child
                text == (IF heap[child].kind \in {"String", "Subexpression"}
                         THEN <<"(", "?", ":">> \o Str(heap, child) \o <<")">>
                         ELSE Str(heap, child))
                        \o symbol(heap[id])
            IN  /\ Str(heap, id) = text
                /\ heap[cur.stack[1]].children = <<id>> => out = text

(* the expression rendered is a quantified string and then a quantified
   digit *)
C28_Witness ==
    /\ last.op = "str"
    /\ Len(cur.stack) = 1
    /\ LET children == heap[cur.stack[1]].children
       IN  /\ Len(children) = 2
           /\ \A i \in 1..2 : children[i] \in Rendered(QuantifierKinds)
           /\ heap[heap[children[1]].child].kind = "String"
           /\ heap[heap[children[2]].child].kind = "Digit"

(* the last child of the top of the stack is a quantifier whose child is a
   container or a merged expression *)
QuantifiedLast(h, self) ==
    /\ h[Top(self.stack)].kind \in ContainsChildren
    /\ h[Top(self.stack)].children # <<>>
    /\ LET q == h[Top(h[Top(self.stack)].children)]
       IN  /\ q.kind \in QuantifierKinds
           /\ q.child # None
           /\ h[q.child].kind \in ContainsChildren

(* C30: end() on a container that is the child of a quantifier takes the
   container and the quantifier off the stack, the quantifier being the
   last child of the new top of the stack; a subexpression merged on a
   quantifier without child takes that quantifier off the stack and is its
   child; and the element appended next is appended after the quantifier,
   to the container that holds it. *)
C30_EndClosesQuantifier ==
    /\ (/\ last.op = "end" /\ Returns
        /\ heap[prev.stack[Len(prev.stack) - 1]].kind \in QuantifierKinds) =>
          /\ cur.stack = SubSeq(prev.stack, 1, Len(prev.stack) - 2)
          /\ QuantifiedLast(heap, cur)
          /\ Top(heap[Top(cur.stack)].children) =
                 prev.stack[Len(prev.stack) - 1]
          /\ heap[prev.stack[Len(prev.stack) - 1]].child = Top(prev.stack)
    /\ (/\ last.op = "subexpression" /\ Returns
        /\ Pending(heap, prev.stack)) =>
          /\ Len(cur.stack) = Len(prev.stack) - 1
          /\ QuantifiedLast(heap, cur)
          /\ heap[Spliced(heap, cur)].kind = "Subexpression"
    /\ (/\ last.op \in PushOps \cup {"subexpression"} /\ Returns
        /\ QuantifiedLast(heap, prev)) =>
          /\ Len(cur.stack) >= Len(prev.stack)
          /\ LET was == heap[Top(prev.stack)].children
                 now == heap[cur.stack[Len(prev.stack)]].children
             IN  /\ Len(now) = Len(was) + 1
                 /\ ButLast(now) = was

(* a leaf was appended after a quantified group that end() had closed *)
C30_Witness ==
    /\ last.op = "leaf" /\ Returns
    /\ QuantifiedLast(heap, prev)
    /\ heap[heap[Top(heap[Top(prev.stack)].children)].child].kind = "Group"

(* the number of elements of the kinds in the expression of a state *)
Count(self, kinds) == Len(OfKind(heap, self.stack[1], kinds))

(* C32: with check_simple_start_and_end set on the target, subexpression
   with ignore_start_and_end=False of a complete source that holds one
   start-of-input and one end-of-input anchor, into a target that holds no
   anchor, returns, and the element it adds holds the elements of the
   source, kind by kind, the two anchors among them. *)
C32_MergeKeepsAnchors ==
    (/\ last.op = "subexpression"
     /\ prev.check_simple_start_and_end
     /\ ~ last.arg.ignore_start_and_end
     /\ Len(src.stack) = 1
     /\ Count(src, {"StartOfInput"}) = 1
     /\ Count(src, {"EndOfInput"}) = 1
     /\ ~ Holds(prev, {"StartOfInput", "EndOfInput"}))
    => /\ Returns
       /\ KindsBelow(heap, Spliced(heap, cur)) = KindsBelow(heap, src.stack[1])
       /\ Count(cur, {"StartOfInput"}) = 1
       /\ Count(cur, {"EndOfInput"}) = 1

(* a source with both anchors was merged, its anchors kept, into a strict
   target without anchors *)
C32_Witness ==
    /\ last.op = "subexpression" /\ Returns
    /\ prev.check_simple_start_and_end
    /\ ~ last.arg.ignore_start_and_end
    /\ Count(src, {"StartOfInput"}) = 1
    /\ Count(src, {"EndOfInput"}) = 1
    /\ ~ Holds(prev, {"StartOfInput", "EndOfInput"})

(* C33: with check_simple_start_and_end set, end_of_input returns when the
   expression holds one start-of-input anchor and no end-of-input
   anchor. *)
C33_EndAfterStartAccepted ==
    (/\ last.op = "end_of_input"
     /\ prev.check_simple_start_and_end
     /\ Count(prev, {"StartOfInput"}) = 1
     /\ ~ Holds(prev, {"EndOfInput"}))
    => Returns

(* the value of the element an operation constructs, from the argument of
   the call: a container is constructed without children, a quantifier
   without child *)
Constructed(arg) ==
    IF arg.kind \in ContainsChildren
    THEN [k \in DOMAIN arg \cup {"children"} |->
             IF k = "children" THEN <<>> ELSE arg[k]]
    ELSE IF arg.kind \in QuantifierKinds
    THEN [arg EXCEPT !.child = [kind |-> "None"]]
    ELSE arg

(* the value of the tree of the entry at position i of an open stack once
   the value d is added below the top of that stack: as the child of the
   quantifier on top, or after the children of the container on top *)
RECURSIVE WithAdded(_, _, _, _)
WithAdded(h, stack, i, d) ==
    LET e == h[stack[i]]
        below == IF i = Len(stack) THEN d ELSE WithAdded(h, stack, i + 1, d)
    IN  IF e.kind \in ContainsChild
        THEN [e EXCEPT !.child = below]
        ELSE [e EXCEPT !.children =
                 IF i = Len(stack)
                 THEN [j \in DOMAIN e.children |-> Deep(h, e.children[j])]
                      \o <<d>>
                 ELSE [j \in DOMAIN e.children |->
                          IF e.children[j] = stack[i + 1] THEN below
                          ELSE Deep(h, e.children[j])]]

(* C31: after an operation that appends an element returns, the tree of
   the new root is the tree of the old root with that element added as the
   last child of the top of the old stack, or as the child of the
   quantifier on top of it, and nothing else changed; every entry of the
   new stack is reached from the new root, and is of the kind of the entry
   of the old stack at its position. *)
C31_PushRebuildsPath ==
    (last.op \in PushOps /\ Returns) =>
        /\ Deep(heap, cur.stack[1]) =
               WithAdded(heap, prev.stack, 1, Constructed(last.arg))
        /\ \A i \in DOMAIN cur.stack :
               /\ cur.stack[i] \in Range(Walk(heap, cur.stack[1]))
               /\ i <= Len(prev.stack) =>
                      heap[cur.stack[i]].kind = heap[prev.stack[i]].kind

(* a leaf was appended two containers deep, in an expression where a
   container on the stack has an earlier child *)
C31_Witness ==
    /\ last.op = "leaf" /\ Returns
    /\ Len(prev.stack) >= 3
    /\ \E i \in DOMAIN cur.stack :
           /\ i < Len(cur.stack)
           /\ heap[cur.stack[i]].kind \in ContainsChildren
           /\ Len(heap[cur.stack[i]].children) >= 2

(* C34: the stack is not empty and starts with the root; every later
   entry is the very object that is the child, or the last child, of the
   entry before it; a quantifier on the stack is its last entry and has no
   child, or has for child the container that is the next entry. So
   add_child and replace_child never raise: appending a leaf or opening a
   container returns, and a quantifier, end() or subexpression raises only
   for what the operation itself checks. *)
C34_StackIsPath ==
    /\ cur.stack # <<>>
    /\ heap[cur.stack[1]].kind = "Root"
    /\ \A i \in 2 .. Len(cur.stack) :
          LET parent == heap[cur.stack[i - 1]]
          IN  IF parent.kind \in ContainsChild
              THEN /\ parent.child = cur.stack[i]
                   /\ heap[cur.stack[i]].kind \in ContainsChildren
              ELSE /\ parent.children # <<>>
                   /\ Top(parent.children) = cur.stack[i]
    /\ heap[Top(cur.stack)].kind \in ContainsChild =>
          heap[Top(cur.stack)].child = None
    /\ last.op \in {"leaf", "container"} => Returns
    /\ (last.op = "quantify" /\ Raises) => Pending(heap, prev.stack)
    /\ (last.op = "end" /\ Raises) =>
          \/ Len(prev.stack) = 1
          \/ heap[Top(prev.stack)].kind \notin ContainsChildren
    /\ (last.op = "subexpression" /\ Raises) => Len(src.stack) # 1

(* a leaf was appended to a container that is the child of a quantifier,
   both on the stack *)
C34_Witness ==
    /\ last.op = "leaf" /\ Returns
    /\ Len(cur.stack) >= 3
    /\ heap[cur.stack[Len(cur.stack) - 1]].kind \in ContainsChild
    /\ heap[Top(cur.stack)].children # <<>>

(* C35: after subexpression(source) returns, every indexed backreference
   of the element added, of index 1 or more in the source, has that index
   increased by the number of capture groups of the target, which are all
   opened before the element added: it refers, counting the groups of the
   result from the left, to the group it referred to in the source. *)
C35_MergedBackreferencesKeepTheirGroup ==
    (last.op = "subexpression" /\ Returns) =>
        LET was == Backrefs(heap, src.stack[1])
            now == Backrefs(heap, Spliced(heap, cur))
        IN  /\ Len(now) = Len(was)
            /\ \A i \in DOMAIN was :
                   was[i] >= 1 =>
                       now[i] = was[i] + Count(prev, {"Capture", "NamedCapture"})

==============================================================================
